---------------------------- MODULE Spec2Model ----------------------------
(***************************************************************************)
(* Model of netplan's generate.c: main() as a state machine whose steps    *)
(* are the statements of main() between two calls of an external           *)
(* collaborator (glob, parse_yaml, finish_parse, the backend writers,      *)
(* udevadm, enable_networkd, fopen).  An invocation of the program is a    *)
(* process p; the filesystem (the stamp files, the files of the backends)  *)
(* is shared by all invocations.                                           *)
(*                                                                         *)
(* Spec runs the invocations one after the other and takes the backends    *)
(* as calls only; SpecOutput also follows the files the backends leave     *)
(* under rootdir; SpecConcurrent lets two invocations overlap.             *)
(*                                                                         *)
(* Paths are tuples of strings (their components); a basename is the last  *)
(* component.  strcmp works on the bytes of a basename, given by Bytes.    *)
(* A NULL pointer is the empty tuple (files, generator_run_stamp) or the   *)
(* empty set (netdefs, ip_routing, ip_rules).                              *)
(***************************************************************************)
EXTENDS Integers, Sequences, FiniteSets, TLC

(* ------------------------------ bounds --------------------------------- *)

\* number of invocations of the program in one behaviour
MaxRuns == 2

\* number of processes that can hold an invocation
MaxProcs == 2

Procs == 1..MaxProcs

(* --------------------------- input domains ----------------------------- *)

\* basenames the three globs can match ("9-b.yaml" sorts after "10-a.yaml"
\* byte-wise although 9 < 10)
Basenames == {"10-a.yaml", "9-b.yaml"}

Bytes(s) ==
    CASE s = "10-a.yaml" -> <<49, 48, 45, 97, 46, 121, 97, 109, 108>>
      [] s = "9-b.yaml"  -> <<57, 45, 98, 46, 121, 97, 109, 108>>
      [] s = "1.yaml"    -> <<49, 46, 121, 97, 109, 108>>
      [] OTHER           -> <<>>

\* the three tiers, in the order main() globs them
TierLib == "lib/netplan"
TierEtc == "etc/netplan"
TierRun == "run/netplan"

\* positional arguments of an invocation: the first k of these (the second
\* sorts before the first, the fourth repeats the first)
ArgPool == << <<"arg2">>, <<"arg1">>, <<"arg3">>, <<"arg2">> >>

ArgVectors == { SubSeq(ArgPool, 1, k) : k \in 0..Len(ArgPool) }

\* what the ingestion pipeline can hold: definitions, routes, rules
Defs   == {"eth0", "br0"}
Routes == {"route1"}
Rules  == {"rule1"}

(* ------------------------------ helpers -------------------------------- *)

Ev(op, arg, res) == [op |-> op, arg |-> arg, res |-> res]

\* g_path_get_basename
g_path_get_basename(path) == path[Len(path)]

\* strcmp(a, b) on NUL-terminated byte strings, bytes as unsigned char
RECURSIVE StrcmpAt(_, _, _)
StrcmpAt(a, b, i) ==
    LET ca == IF i <= Len(a) THEN a[i] ELSE 0
        cb == IF i <= Len(b) THEN b[i] ELSE 0
    IN  IF ca # cb THEN ca - cb
        ELSE IF ca = 0 THEN 0
        ELSE StrcmpAt(a, b, i + 1)

strcmp_reversed(a, b) == StrcmpAt(Bytes(b), Bytes(a), 1)

strcmp(a, b) == StrcmpAt(Bytes(a), Bytes(b), 1)

\* g_list_sort: glib's merge sort; the first half has floor(n/2) elements,
\* the merge takes from the first list when compare <= 0
RECURSIVE g_list_sort_merge(_, _)
g_list_sort_merge(l1, l2) ==
    IF l1 = <<>> THEN l2
    ELSE IF l2 = <<>> THEN l1
    ELSE IF strcmp(Head(l1), Head(l2)) <= 0
         THEN <<Head(l1)>> \o g_list_sort_merge(Tail(l1), l2)
         ELSE <<Head(l2)>> \o g_list_sort_merge(l1, Tail(l2))

RECURSIVE g_list_sort(_)
g_list_sort(l) ==
    IF Len(l) <= 1 THEN l
    ELSE LET h == Len(l) \div 2
         IN  g_list_sort_merge(g_list_sort(SubSeq(l, 1, h)),
                               g_list_sort(SubSeq(l, h + 1, Len(l))))

\* the orders in which g_hash_table_get_keys can return the keys
Orderings(S) ==
    { s \in [1..Cardinality(S) -> S] : \A i, j \in DOMAIN s : s[i] = s[j] => i = j }

\* g_hash_table_insert: an existing key gets the new value
g_hash_table_insert_keep(h, key, value) ==
    IF key \in DOMAIN h THEN h
    ELSE [k \in DOMAIN h \cup {key} |-> IF k = key THEN value ELSE h[k]]

g_hash_table_insert(h, key, value) ==
    [k \in DOMAIN h \cup {key} |-> IF k = key THEN value ELSE h[k]]

\* lines 165-166: every path of the glob vector, in order, into the table
RECURSIVE InsertAll(_, _)
InsertAll(h, pathv) ==
    IF pathv = <<>> THEN h
    ELSE InsertAll(g_hash_table_insert(h, g_path_get_basename(Head(pathv)), Head(pathv)),
                   Tail(pathv))

\* the matches of one glob: glob sorts the paths of one pattern
RECURSIVE GlobPaths(_, _)
GlobPaths(tier, names) ==
    IF names = {} THEN <<>>
    ELSE LET least == CHOOSE n \in names : \A m \in names : StrcmpAt(Bytes(n), Bytes(m), 1) <= 0
         IN  << <<tier, least>> >> \o GlobPaths(tier, names \ {least})

\* line 120: g_build_path(G_DIR_SEPARATOR_S, files[0], "netplan.stamp", NULL)
StampPath(fs) == fs[1] \o <<"netplan.stamp">>

\* line 116: files == NULL || g_strv_length(files) != 3 || files[0] == NULL
BadGeneratorArgsLax(fs) == fs = <<>>

BadGeneratorArgs(fs) == fs = <<>> \/ Len(fs) # 3 \/ fs[1] = <<>>

\* line 121: g_access(generator_run_stamp, F_OK) == 0
StampExistsNever(stamp, fsys) == FALSE

StampExists(stamp, fsys) == stamp \in fsys

\* the directories of the two backends under rootdir
NetworkdDir == "run/systemd/network"
NmDir       == "run/NetworkManager/system-connections"

\* cleanup_networkd_conf(rootdir), cleanup_nm_conf(rootdir): the files a
\* previous run left in the directory of the backend are removed
cleanup_networkd_conf(out) == {f \in out : f[1] # NetworkdDir}

cleanup_nm_conf(out) == {f \in out : f[1] # NmDir}

\* write_networkd_conf(def, rootdir) returns whether it wrote a file for def
write_networkd_conf(out, def, res) == IF res THEN out \cup {<<NetworkdDir, def>>} ELSE out

\* write_nm_conf(def, rootdir) writes the file of def
write_nm_conf(out, def) == out \cup {<<NmDir, def>>}

\* get_global_backend(): the renderer of the ingested sources; none when no
\* source was ingested
get_global_backend(sources) ==
    IF sources = <<>> THEN {"BACKEND_NONE"}
    ELSE {"BACKEND_NONE", "BACKEND_NETWORKD", "BACKEND_NM"}

\* finish_parse(&error) validates what was ingested: it can fail only when
\* something was
finish_parse(sources) == IF sources = <<>> THEN {TRUE} ELSE BOOLEAN

(* ------------------------------- state --------------------------------- *)

VARIABLES
    stamps,               \* filesystem: the stamp files that exist
    output,               \* filesystem: the backend files of definitions (SpecOutput)
    runs,                 \* invocations started so far
    ingestRuns,           \* generator-mode invocations that called parse_yaml
    dispatchRuns,         \* generator-mode invocations that got past finish_parse
    stampRuns,            \* generator-mode invocations that created the stamp
    pc,                   \* position of each invocation in main()
    status,               \* how the invocation ended
    called_as_generator,
    files,
    generator_run_stamp,
    stamps_at_start,      \* the stamp files that existed when the run started
    gl_pathv,             \* gl.gl_pathv
    configs,              \* basename -> path
    config_keys,          \* sorted basenames
    iter,                 \* loop position: f (line 129) or i (line 170)
    netdefs,
    ip_routing,
    ip_rules,
    any_networkd,
    pending,              \* entries a g_hash_table_foreach has not visited yet
    trace                 \* the calls of external collaborators, in order

fsvars   == <<stamps, output>>
histvars == <<runs, ingestRuns, dispatchRuns, stampRuns>>
argvars  == <<called_as_generator, files, generator_run_stamp, stamps_at_start>>
enumvars == <<gl_pathv, configs, config_keys, iter>>
datavars == <<netdefs, ip_routing, ip_rules>>
vars == <<stamps, output, runs, ingestRuns, dispatchRuns, stampRuns, pc, status, called_as_generator,
          files, generator_run_stamp, stamps_at_start, gl_pathv, configs,
          config_keys, iter, netdefs, ip_routing, ip_rules, any_networkd,
          pending, trace>>

Running(p) == pc[p] \notin {"idle", "exited"}

Init ==
    /\ stamps = {}
    /\ output = {}
    /\ runs = 0
    /\ ingestRuns = 0
    /\ dispatchRuns = 0
    /\ stampRuns = 0
    /\ pc = [p \in Procs |-> "idle"]
    /\ status = [p \in Procs |-> "none"]
    /\ called_as_generator = [p \in Procs |-> FALSE]
    /\ files = [p \in Procs |-> <<>>]
    /\ generator_run_stamp = [p \in Procs |-> <<>>]
    /\ stamps_at_start = [p \in Procs |-> {}]
    /\ gl_pathv = [p \in Procs |-> <<>>]
    /\ configs = [p \in Procs |-> <<>>]
    /\ config_keys = [p \in Procs |-> <<>>]
    /\ iter = [p \in Procs |-> 0]
    /\ netdefs = [p \in Procs |-> {}]
    /\ ip_routing = [p \in Procs |-> {}]
    /\ ip_rules = [p \in Procs |-> {}]
    /\ any_networkd = [p \in Procs |-> FALSE]
    /\ pending = [p \in Procs |-> {}]
    /\ trace = [p \in Procs |-> <<>>]

\* return n / exit(n) / abort(): the process ends
Exit(p, how) ==
    /\ pc' = [pc EXCEPT ![p] = "exited"]
    /\ status' = [status EXCEPT ![p] = how]

Goto(p, label) ==
    /\ pc' = [pc EXCEPT ![p] = label]
    /\ UNCHANGED status

Record(p, events) == trace' = [trace EXCEPT ![p] = @ \o events]


(* ------------------------- start of an invocation ----------------------- *)

\* The program is started: argv[0] decides called_as_generator (line 95), the
\* positional arguments are not parsed yet.
Invoke(p) ==
    /\ runs < MaxRuns
    /\ \E gen \in BOOLEAN :
           called_as_generator' = [called_as_generator EXCEPT ![p] = gen]
    /\ runs' = runs + 1
    /\ pc' = [pc EXCEPT ![p] = "parse_options"]
    /\ status' = [status EXCEPT ![p] = "running"]
    /\ files' = [files EXCEPT ![p] = <<>>]
    /\ generator_run_stamp' = [generator_run_stamp EXCEPT ![p] = <<>>]
    /\ stamps_at_start' = [stamps_at_start EXCEPT ![p] = stamps]
    /\ gl_pathv' = [gl_pathv EXCEPT ![p] = <<>>]
    /\ configs' = [configs EXCEPT ![p] = <<>>]
    /\ config_keys' = [config_keys EXCEPT ![p] = <<>>]
    /\ iter' = [iter EXCEPT ![p] = 0]
    /\ netdefs' = [netdefs EXCEPT ![p] = {}]
    /\ ip_routing' = [ip_routing EXCEPT ![p] = {}]
    /\ ip_rules' = [ip_rules EXCEPT ![p] = {}]
    /\ any_networkd' = [any_networkd EXCEPT ![p] = FALSE]
    /\ pending' = [pending EXCEPT ![p] = {}]
    /\ trace' = [trace EXCEPT ![p] = <<>>]
    /\ UNCHANGED <<stamps, output, ingestRuns, dispatchRuns, stampRuns>>

\* Invocations are sequential: a new one starts when no other is running, in
\* the lowest free process.
Start(p) ==
    /\ \A q \in Procs : ~Running(q)
    /\ \A q \in Procs : q < p => Running(q)
    /\ Invoke(p)

\* Invocations overlap: a new one starts while at most one other is
\* running, in the lowest free process.
StartConcurrent(p) ==
    /\ ~Running(p)
    /\ \A q \in Procs : q < p => Running(q)
    /\ \A q, r \in Procs \ {p} : Running(q) /\ Running(r) => q = r
    /\ Invoke(p)

\* lines 110-113: g_option_context_parse fills files, or fails
ParseOptions(p) ==
    /\ pc[p] = "parse_options"
    /\ \E ok \in BOOLEAN :
          IF ok
          THEN /\ \E fs \in ArgVectors : files' = [files EXCEPT ![p] = fs]
               /\ Goto(p, "generator_check")
          ELSE /\ Exit(p, "exit1")
               /\ UNCHANGED files
    /\ UNCHANGED <<fsvars, histvars, called_as_generator, generator_run_stamp,
                   stamps_at_start, enumvars, datavars, any_networkd, pending, trace>>

\* lines 115-125: the generator's arguments and the stamp of an earlier run
GeneratorCheckLocks(p) ==
    /\ pc[p] = "generator_check"
    /\ IF ~called_as_generator[p]
       THEN /\ Goto(p, "read_input")
            /\ UNCHANGED <<generator_run_stamp, stamps>>
       ELSE IF BadGeneratorArgs(files[p])
       THEN /\ Exit(p, "exit1")
            /\ UNCHANGED <<generator_run_stamp, stamps>>
       ELSE /\ generator_run_stamp' =
                   [generator_run_stamp EXCEPT ![p] = StampPath(files[p])]
            /\ stamps' = stamps \cup {StampPath(files[p])}
            /\ IF StampExists(StampPath(files[p]), stamps)
               THEN Exit(p, "exit0")
               ELSE Goto(p, "read_input")
    /\ UNCHANGED <<output, histvars, called_as_generator, files, stamps_at_start,
                   enumvars, datavars, any_networkd, pending, trace>>

GeneratorCheck(p) ==
    /\ pc[p] = "generator_check"
    /\ IF ~called_as_generator[p]
       THEN /\ Goto(p, "read_input")
            /\ UNCHANGED generator_run_stamp
       ELSE IF BadGeneratorArgs(files[p])
       THEN /\ Exit(p, "exit1")
            /\ UNCHANGED generator_run_stamp
       ELSE /\ generator_run_stamp' =
                   [generator_run_stamp EXCEPT ![p] = StampPath(files[p])]
            /\ IF StampExists(StampPath(files[p]), stamps)
               THEN Exit(p, "exit0")
               ELSE Goto(p, "read_input")
    /\ UNCHANGED <<fsvars, histvars, called_as_generator, files, stamps_at_start,
                   enumvars, datavars, any_networkd, pending, trace>>

(* ------------------------------ ingestion ------------------------------ *)

\* what a successful parse_yaml leaves in the shared model: the tables are
\* created with their first entry
Parsed(p, d, r, u) ==
    /\ netdefs' = [netdefs EXCEPT ![p] = @ \cup d]
    /\ ip_routing' = [ip_routing EXCEPT ![p] = @ \cup r]
    /\ ip_rules' = [ip_rules EXCEPT ![p] = @ \cup u]

\* lines 78-88: process_input_file(f); then the caller's loop goes on at `next`
process_input_file_lenient(p, f, next) ==
    /\ ingestRuns' = IF called_as_generator[p]
                        /\ \A k \in DOMAIN trace[p] : trace[p][k].op # "parse_yaml"
                     THEN ingestRuns + 1 ELSE ingestRuns
    /\ \E ok \in BOOLEAN :
          /\ Record(p, <<Ev("parse_yaml", f, ok)>>)
          /\ IF ok
             THEN \E d \in SUBSET Defs, r \in SUBSET Routes, u \in SUBSET Rules :
                        Parsed(p, d, r, u)
             ELSE UNCHANGED datavars
          /\ iter' = [iter EXCEPT ![p] = @ + 1]
          /\ Goto(p, next)

process_input_file(p, f, next) ==
    /\ ingestRuns' = IF called_as_generator[p]
                        /\ \A k \in DOMAIN trace[p] : trace[p][k].op # "parse_yaml"
                     THEN ingestRuns + 1 ELSE ingestRuns
    /\ \E ok \in BOOLEAN :
          /\ Record(p, <<Ev("parse_yaml", f, ok)>>)
          /\ IF ok
             THEN /\ \E d \in SUBSET Defs, r \in SUBSET Routes, u \in SUBSET Rules :
                        Parsed(p, d, r, u)
                  /\ iter' = [iter EXCEPT ![p] = @ + 1]
                  /\ Goto(p, next)
             ELSE /\ UNCHANGED <<datavars, iter>>
                  /\ Exit(p, "exit1")

\* line 128: if (files && !called_as_generator)
UseExplicitFilesNever(p) == FALSE

UseExplicitFilesInGenerator(p) == files[p] # <<>>

UseExplicitFiles(p) == files[p] # <<>> /\ ~called_as_generator[p]

\* lines 128-131: the files given on the command line, in that order
ReadExplicitFiles(p) ==
    /\ pc[p] = "read_input"
    /\ UseExplicitFiles(p)
    /\ IF iter[p] < Len(files[p])
       THEN process_input_file(p, files[p][iter[p] + 1], "read_input")
       ELSE /\ Goto(p, "finish_parse")
            /\ UNCHANGED <<ingestRuns, datavars, iter, trace>>
    /\ UNCHANGED <<fsvars, runs, dispatchRuns, stampRuns, argvars, gl_pathv, configs,
                   config_keys, any_networkd, pending>>

\* glob(pattern, flags, NULL, &gl): the matches of the tier are appended to
\* gl (rc 0, or GLOB_NOMATCH for none), or the glob fails (the result of a
\* glob event is FALSE)
GlobNomatchFails(p, tier, next) ==
    /\ \E err \in BOOLEAN :
          /\ Record(p, <<Ev("glob", <<tier>>, ~err)>>)
          /\ IF err
             THEN /\ Exit(p, "exit1")
                  /\ UNCHANGED gl_pathv
             ELSE \E names \in SUBSET Basenames :
                     /\ gl_pathv' = [gl_pathv EXCEPT ![p] = @ \o GlobPaths(tier, names)]
                     /\ IF names = {} THEN Exit(p, "exit1") ELSE Goto(p, next)
    /\ UNCHANGED <<fsvars, histvars, argvars, configs, config_keys, iter,
                   datavars, any_networkd, pending>>

Glob(p, tier, next) ==
    /\ \E err \in BOOLEAN :
          /\ Record(p, <<Ev("glob", <<tier>>, ~err)>>)
          /\ IF err
             THEN /\ Exit(p, "exit1")
                  /\ UNCHANGED gl_pathv
             ELSE /\ \E names \in SUBSET Basenames :
                        gl_pathv' = [gl_pathv EXCEPT ![p] = @ \o GlobPaths(tier, names)]
                  /\ Goto(p, next)
    /\ UNCHANGED <<fsvars, histvars, argvars, configs, config_keys, iter,
                   datavars, any_networkd, pending>>

\* lines 147-151
GlobLib(p) ==
    /\ pc[p] = "read_input"
    /\ ~UseExplicitFiles(p)
    /\ Glob(p, TierLib, "glob_etc")

\* lines 153-157
GlobEtc(p) ==
    /\ pc[p] = "glob_etc"
    /\ Glob(p, TierEtc, "glob_run")

\* lines 159-163
GlobRun(p) ==
    /\ pc[p] = "glob_run"
    /\ Glob(p, TierRun, "insert_configs")

\* lines 165-168: the hash table by basename, and its keys sorted
MergeConfigs(p) ==
    /\ pc[p] = "insert_configs"
    /\ LET h == InsertAll(<<>>, gl_pathv[p])
       IN  /\ configs' = [configs EXCEPT ![p] = h]
           /\ \E keys \in Orderings(DOMAIN h) :
                  config_keys' = [config_keys EXCEPT ![p] = g_list_sort(keys)]
    /\ iter' = [iter EXCEPT ![p] = 0]
    /\ Goto(p, "ingest_configs")
    /\ UNCHANGED <<fsvars, histvars, argvars, gl_pathv, datavars, any_networkd,
                   pending, trace>>

\* lines 170-171: one iteration of the loop over config_keys
IngestConfig(p) ==
    /\ pc[p] = "ingest_configs"
    /\ iter[p] < Len(config_keys[p])
    /\ process_input_file(p, configs[p][config_keys[p][iter[p] + 1]], "ingest_configs")
    /\ UNCHANGED <<fsvars, runs, dispatchRuns, stampRuns, argvars, gl_pathv, configs,
                   config_keys, any_networkd, pending>>

\* line 172: the loop is over; gl, configs and config_keys go out of scope
\* (configs and config_keys are g_autoptr)
LeaveDiscovery(p) ==
    /\ pc[p] = "ingest_configs"
    /\ iter[p] >= Len(config_keys[p])
    /\ gl_pathv' = [gl_pathv EXCEPT ![p] = <<>>]
    /\ configs' = [configs EXCEPT ![p] = <<>>]
    /\ config_keys' = [config_keys EXCEPT ![p] = <<>>]
    /\ iter' = [iter EXCEPT ![p] = 0]
    /\ Goto(p, "finish_parse")
    /\ UNCHANGED <<fsvars, histvars, argvars, datavars, any_networkd, pending, trace>>

\* line 174: g_assert(finish_parse(&error))
FinishParseExit1(p) ==
    /\ pc[p] = "finish_parse"
    /\ \E ok \in finish_parse(SelectSeq(trace[p], LAMBDA e : e.op = "parse_yaml")) :
          /\ Record(p, <<Ev("finish_parse", <<>>, ok)>>)
          /\ IF ok THEN Goto(p, "cleanup") ELSE Exit(p, "exit1")
    /\ UNCHANGED <<fsvars, histvars, argvars, enumvars, datavars, any_networkd, pending>>

FinishParse(p) ==
    /\ pc[p] = "finish_parse"
    /\ \E ok \in finish_parse(SelectSeq(trace[p], LAMBDA e : e.op = "parse_yaml")) :
          /\ Record(p, <<Ev("finish_parse", <<>>, ok)>>)
          /\ IF ok THEN Goto(p, "cleanup") ELSE Exit(p, "SIGABRT")
    /\ UNCHANGED <<fsvars, histvars, argvars, enumvars, datavars, any_networkd, pending>>


(* ------------------------------- dispatch ------------------------------ *)

\* where main() goes on when a g_hash_table_foreach over `table` starts: to
\* the iterator if there is an entry, and past the loop otherwise
RulesLoop(p) ==
    IF ip_rules[p] # {} THEN [pc |-> "rule_iterator", pending |-> ip_rules[p]]
    ELSE [pc |-> "reload_udevd", pending |-> {}]

RoutingLoop(p) ==
    IF ip_routing[p] # {} THEN [pc |-> "routing_iterator", pending |-> ip_routing[p]]
    ELSE RulesLoop(p)

\* line 181: if (netdefs)
HasNetdefs(p) == netdefs[p] # {}

CleanupNetworkdOnly(p) ==
    /\ pc[p] = "cleanup"
    /\ Record(p, <<Ev("cleanup_networkd_conf", <<>>, cleanup_networkd_conf(output) # output)>>)
    /\ output' = cleanup_networkd_conf(output)
    /\ dispatchRuns' = IF called_as_generator[p] THEN dispatchRuns + 1 ELSE dispatchRuns
    /\ pending' = [pending EXCEPT ![p] = netdefs[p]]
    /\ Goto(p, IF HasNetdefs(p) THEN "nd_iterator" ELSE "global_backend")
    /\ UNCHANGED <<stamps, runs, ingestRuns, stampRuns, argvars, enumvars, datavars, any_networkd>>

\* lines 176-181: the output of previous runs is removed (the result of a
\* cleanup event tells whether there was any)
Cleanup(p) ==
    /\ pc[p] = "cleanup"
    /\ Record(p, <<Ev("cleanup_networkd_conf", <<>>, cleanup_networkd_conf(output) # output),
                   Ev("cleanup_nm_conf", <<>>, cleanup_nm_conf(output) # output)>>)
    /\ output' = cleanup_nm_conf(cleanup_networkd_conf(output))
    /\ dispatchRuns' = IF called_as_generator[p] THEN dispatchRuns + 1 ELSE dispatchRuns
    /\ pending' = [pending EXCEPT ![p] = netdefs[p]]
    /\ Goto(p, IF HasNetdefs(p) THEN "nd_iterator" ELSE "global_backend")
    /\ UNCHANGED <<stamps, runs, ingestRuns, stampRuns, argvars, enumvars, datavars, any_networkd>>

\* the flag after a managed-backend writer returned res
SetAnyNetworkd(flag, res) == flag \/ res

NdIteratorFinishEach(p) ==
    /\ pc[p] = "nd_iterator"
    /\ \E d \in pending[p], res \in BOOLEAN :
          /\ any_networkd' = [any_networkd EXCEPT ![p] = SetAnyNetworkd(@, res)]
          /\ Record(p, <<Ev("write_networkd_conf", <<d>>, res),
                         Ev("write_nm_conf", <<d>>, TRUE),
                         Ev("write_nm_conf_finish", <<>>, TRUE)>>)
          /\ pending' = [pending EXCEPT ![p] = @ \ {d}]
          /\ Goto(p, IF pending[p] = {d} THEN RoutingLoop(p).pc ELSE "nd_iterator")
    /\ UNCHANGED <<fsvars, histvars, argvars, enumvars, datavars>>

NdIteratorShortCircuit(p) ==
    /\ pc[p] = "nd_iterator"
    /\ \E d \in pending[p], res \in BOOLEAN :
          /\ any_networkd' = [any_networkd EXCEPT ![p] = SetAnyNetworkd(@, res)]
          /\ IF res
             THEN Record(p, <<Ev("write_networkd_conf", <<d>>, res)>>)
             ELSE Record(p, <<Ev("write_networkd_conf", <<d>>, res),
                             Ev("write_nm_conf", <<d>>, TRUE)>>)
          /\ pending' = [pending EXCEPT ![p] = @ \ {d}]
          /\ Goto(p, IF pending[p] = {d} THEN "write_nm_conf_finish" ELSE "nd_iterator")
    /\ UNCHANGED <<fsvars, histvars, argvars, enumvars, datavars>>

\* lines 70-76 (from line 183): nd_iterator on one definition, in the
\* unspecified order of the hash table; the files the writers leave are not
\* followed
NdIterator(p) ==
    /\ pc[p] = "nd_iterator"
    /\ \E d \in pending[p], res \in BOOLEAN :
          /\ any_networkd' = [any_networkd EXCEPT ![p] = SetAnyNetworkd(@, res)]
          /\ Record(p, <<Ev("write_networkd_conf", <<d>>, res),
                         Ev("write_nm_conf", <<d>>, TRUE)>>)
          /\ pending' = [pending EXCEPT ![p] = @ \ {d}]
          /\ Goto(p, IF pending[p] = {d} THEN "write_nm_conf_finish" ELSE "nd_iterator")
    /\ UNCHANGED <<fsvars, histvars, argvars, enumvars, datavars>>

\* nd_iterator together with the files its two writers leave under rootdir
NdIteratorOutput(p) ==
    /\ pc[p] = "nd_iterator"
    /\ \E d \in pending[p], res \in BOOLEAN :
          /\ any_networkd' = [any_networkd EXCEPT ![p] = SetAnyNetworkd(@, res)]
          /\ Record(p, <<Ev("write_networkd_conf", <<d>>, res),
                         Ev("write_nm_conf", <<d>>, TRUE)>>)
          /\ output' = write_nm_conf(write_networkd_conf(output, d, res), d)
          /\ pending' = [pending EXCEPT ![p] = @ \ {d}]
          /\ Goto(p, IF pending[p] = {d} THEN "write_nm_conf_finish" ELSE "nd_iterator")
    /\ UNCHANGED <<stamps, histvars, argvars, enumvars, datavars>>

\* line 184, and the entry into write_global_routing (lines 63-68)
WriteNmConfFinish(p) ==
    /\ pc[p] = "write_nm_conf_finish"
    /\ Record(p, <<Ev("write_nm_conf_finish", <<>>, TRUE)>>)
    /\ pending' = [pending EXCEPT ![p] = RoutingLoop(p).pending]
    /\ Goto(p, RoutingLoop(p).pc)
    /\ UNCHANGED <<fsvars, histvars, argvars, enumvars, datavars, any_networkd>>

\* lines 49-54: routing_iterator on one route
RoutingIterator(p) ==
    /\ pc[p] = "routing_iterator"
    /\ \E r \in pending[p], res \in BOOLEAN :
          /\ any_networkd' = [any_networkd EXCEPT ![p] = SetAnyNetworkd(@, res)]
          /\ Record(p, <<Ev("write_networkd_global_ip_route", <<r>>, res)>>)
          /\ IF pending[p] = {r}
             THEN /\ pending' = [pending EXCEPT ![p] = RulesLoop(p).pending]
                  /\ Goto(p, RulesLoop(p).pc)
             ELSE /\ pending' = [pending EXCEPT ![p] = @ \ {r}]
                  /\ Goto(p, "routing_iterator")
    /\ UNCHANGED <<fsvars, histvars, argvars, enumvars, datavars>>

\* lines 56-61: rule_iterator on one rule
RuleIterator(p) ==
    /\ pc[p] = "rule_iterator"
    /\ \E r \in pending[p], res \in BOOLEAN :
          /\ any_networkd' = [any_networkd EXCEPT ![p] = SetAnyNetworkd(@, res)]
          /\ Record(p, <<Ev("write_networkd_global_ip_rule", <<r>>, res)>>)
          /\ pending' = [pending EXCEPT ![p] = @ \ {r}]
          /\ Goto(p, IF pending[p] = {r} THEN "reload_udevd" ELSE "rule_iterator")
    /\ UNCHANGED <<fsvars, histvars, argvars, enumvars, datavars>>

\* lines 42-47 (from line 192): udevadm control --reload
ReloadUdevdIfAny(p) ==
    /\ pc[p] = "reload_udevd"
    /\ IF any_networkd[p]
       THEN Record(p, <<Ev("reload_udevd", <<>>, TRUE)>>)
       ELSE UNCHANGED trace
    /\ Goto(p, "global_backend")
    /\ UNCHANGED <<fsvars, histvars, argvars, enumvars, datavars, any_networkd, pending>>

ReloadUdevd(p) ==
    /\ pc[p] = "reload_udevd"
    /\ Record(p, <<Ev("reload_udevd", <<>>, TRUE)>>)
    /\ Goto(p, "global_backend")
    /\ UNCHANGED <<fsvars, histvars, argvars, enumvars, datavars, any_networkd, pending>>

GlobalBackendIfNetdefs(p) ==
    /\ pc[p] = "global_backend"
    /\ \E backend \in get_global_backend(SelectSeq(trace[p], LAMBDA e : e.op = "parse_yaml")) :
          IF backend = "BACKEND_NM" /\ HasNetdefs(p)
          THEN Record(p, <<Ev("get_global_backend", <<backend>>, TRUE),
                           Ev("g_string_free_to_file",
                              <<"run/NetworkManager/conf.d", "10-globally-managed-devices.conf">>,
                              TRUE)>>)
          ELSE Record(p, <<Ev("get_global_backend", <<backend>>, TRUE)>>)
    /\ Goto(p, "generator_end")
    /\ UNCHANGED <<fsvars, histvars, argvars, enumvars, datavars, any_networkd, pending>>

\* lines 195-198: the empty 10-globally-managed-devices.conf when the global
\* renderer is NetworkManager
GlobalBackend(p) ==
    /\ pc[p] = "global_backend"
    /\ \E backend \in get_global_backend(SelectSeq(trace[p], LAMBDA e : e.op = "parse_yaml")) :
          IF backend = "BACKEND_NM"
          THEN Record(p, <<Ev("get_global_backend", <<backend>>, TRUE),
                           Ev("g_string_free_to_file",
                              <<"run/NetworkManager/conf.d", "10-globally-managed-devices.conf">>,
                              TRUE)>>)
          ELSE Record(p, <<Ev("get_global_backend", <<backend>>, TRUE)>>)
    /\ Goto(p, "generator_end")
    /\ UNCHANGED <<fsvars, histvars, argvars, enumvars, datavars, any_networkd, pending>>

\* line 202: if (any_networkd)
EnableWantedAlways(p) == TRUE

EnableWanted(p) == any_networkd[p]

\* lines 200-203, and line 212 when not called as generator
GeneratorEnd(p) ==
    /\ pc[p] = "generator_end"
    /\ IF called_as_generator[p]
       THEN /\ IF EnableWanted(p)
               THEN Record(p, <<Ev("enable_networkd", files[p][1], TRUE)>>)
               ELSE UNCHANGED trace
            /\ Goto(p, "write_stamp")
       ELSE /\ UNCHANGED trace
            /\ Exit(p, "exit0")
    /\ UNCHANGED <<fsvars, histvars, argvars, enumvars, datavars, any_networkd, pending>>

\* fopen(path, "w") that succeeds: the file exists afterwards
CreateStampNowhere(fsys, stamp) == fsys

CreateStamp(fsys, stamp) == fsys \cup {stamp}

\* lines 205-212: fopen(generator_run_stamp, "w"), g_assert(f != NULL)
WriteStampIfAny(p) ==
    /\ pc[p] = "write_stamp"
    /\ IF any_networkd[p]
       THEN /\ Record(p, <<Ev("fopen", generator_run_stamp[p], TRUE)>>)
            /\ stamps' = CreateStamp(stamps, generator_run_stamp[p])
            /\ stampRuns' = stampRuns + 1
       ELSE UNCHANGED <<trace, stamps, stampRuns>>
    /\ Exit(p, "exit0")
    /\ UNCHANGED <<output, runs, ingestRuns, dispatchRuns, argvars, enumvars, datavars,
                   any_networkd, pending>>

WriteStampIgnoreFailure(p) ==
    /\ pc[p] = "write_stamp"
    /\ \E ok \in BOOLEAN :
          /\ Record(p, <<Ev("fopen", generator_run_stamp[p], ok)>>)
          /\ IF ok
             THEN /\ stamps' = CreateStamp(stamps, generator_run_stamp[p])
                  /\ stampRuns' = stampRuns + 1
             ELSE UNCHANGED <<stamps, stampRuns>>
          /\ Exit(p, "exit0")
    /\ UNCHANGED <<output, runs, ingestRuns, dispatchRuns, argvars, enumvars, datavars,
                   any_networkd, pending>>

WriteStamp(p) ==
    /\ pc[p] = "write_stamp"
    /\ \E ok \in BOOLEAN :
          /\ Record(p, <<Ev("fopen", generator_run_stamp[p], ok)>>)
          /\ IF ok
             THEN /\ stamps' = CreateStamp(stamps, generator_run_stamp[p])
                  /\ stampRuns' = stampRuns + 1
                  /\ Exit(p, "exit0")
             ELSE /\ UNCHANGED <<stamps, stampRuns>>
                  /\ Exit(p, "SIGABRT")
    /\ UNCHANGED <<output, runs, ingestRuns, dispatchRuns, argvars, enumvars, datavars,
                   any_networkd, pending>>

(* ---------------------------- specification ---------------------------- *)

Next ==
    \E p \in Procs :
        \/ Start(p)
        \/ ParseOptions(p)
        \/ GeneratorCheck(p)
        \/ ReadExplicitFiles(p)
        \/ GlobLib(p)
        \/ GlobEtc(p)
        \/ GlobRun(p)
        \/ MergeConfigs(p)
        \/ IngestConfig(p)
        \/ LeaveDiscovery(p)
        \/ FinishParse(p)
        \/ Cleanup(p)
        \/ NdIterator(p)
        \/ WriteNmConfFinish(p)
        \/ RoutingIterator(p)
        \/ RuleIterator(p)
        \/ ReloadUdevd(p)
        \/ GlobalBackend(p)
        \/ GeneratorEnd(p)
        \/ WriteStamp(p)

Spec == Init /\ [][Next]_vars

\* A small environment: no or three positional arguments, one file that can
\* be in each tier, no global routes or rules.
SmallEnvironment ==
    \A p \in Procs :
        /\ files[p] \in {<<>>, SubSeq(ArgPool, 1, 3)}
        /\ \A k \in DOMAIN gl_pathv[p] : g_path_get_basename(gl_pathv[p][k]) = "10-a.yaml"
        /\ ip_routing[p] = {}
        /\ ip_rules[p] = {}

\* Sequential invocations in the small environment, with the files of the
\* two backends under rootdir: what the cleanups remove and the writers of
\* nd_iterator leave.
NextOutput ==
    \E p \in Procs :
        \/ Start(p) /\ SmallEnvironment'
        \/ ParseOptions(p) /\ SmallEnvironment'
        \/ GeneratorCheck(p) /\ SmallEnvironment'
        \/ ReadExplicitFiles(p) /\ SmallEnvironment'
        \/ GlobLib(p) /\ SmallEnvironment'
        \/ GlobEtc(p) /\ SmallEnvironment'
        \/ GlobRun(p) /\ SmallEnvironment'
        \/ MergeConfigs(p) /\ SmallEnvironment'
        \/ IngestConfig(p) /\ SmallEnvironment'
        \/ LeaveDiscovery(p) /\ SmallEnvironment'
        \/ FinishParse(p) /\ SmallEnvironment'
        \/ Cleanup(p) /\ SmallEnvironment'
        \/ NdIteratorOutput(p) /\ SmallEnvironment'
        \/ WriteNmConfFinish(p) /\ SmallEnvironment'
        \/ ReloadUdevd(p) /\ SmallEnvironment'
        \/ GlobalBackend(p) /\ SmallEnvironment'
        \/ GeneratorEnd(p) /\ SmallEnvironment'
        \/ WriteStamp(p) /\ SmallEnvironment'

SpecOutput == Init /\ [][NextOutput]_vars

\* Overlapping invocations as the generator, with the same three
\* directories, in the small environment, and eth0 the only definition.
Scenario ==
    /\ SmallEnvironment
    /\ \A p \in Procs :
          pc[p] # "idle" => called_as_generator[p] /\ netdefs[p] \subseteq {"eth0"}

NextConcurrent ==
    \E p \in Procs :
        \/ StartConcurrent(p) /\ Scenario'
        \/ ParseOptions(p) /\ Scenario'
        \/ GeneratorCheck(p) /\ Scenario'
        \/ GlobLib(p) /\ Scenario'
        \/ GlobEtc(p) /\ Scenario'
        \/ GlobRun(p) /\ Scenario'
        \/ MergeConfigs(p) /\ Scenario'
        \/ IngestConfig(p) /\ Scenario'
        \/ LeaveDiscovery(p) /\ Scenario'
        \/ FinishParse(p) /\ Scenario'
        \/ Cleanup(p) /\ Scenario'
        \/ NdIterator(p) /\ Scenario'
        \/ WriteNmConfFinish(p) /\ Scenario'
        \/ ReloadUdevd(p) /\ Scenario'
        \/ GlobalBackend(p) /\ Scenario'
        \/ GeneratorEnd(p) /\ Scenario'
        \/ WriteStamp(p) /\ Scenario'

SpecConcurrent == Init /\ [][NextConcurrent]_vars


(* ------------------------- reading the trace --------------------------- *)

Has(p, op) == \E k \in DOMAIN trace[p] : trace[p][k].op = op

Count(p, op) == Cardinality({k \in DOMAIN trace[p] : trace[p][k].op = op})

LastEvent(p) == trace[p][Len(trace[p])]

EndsWith(p, op, res) ==
    /\ trace[p] # <<>>
    /\ LastEvent(p).op = op
    /\ LastEvent(p).res = res

IsParse(e) == e.op = "parse_yaml"

\* the paths passed to parse_yaml so far, in order
Ingested(p) ==
    LET s == SelectSeq(trace[p], IsParse) IN [k \in DOMAIN s |-> s[k].arg]

Exited(p) == pc[p] = "exited"

NetworkdWriters ==
    {"write_networkd_conf", "write_networkd_global_ip_route", "write_networkd_global_ip_rule"}

BackendWrites ==
    NetworkdWriters \cup {"write_nm_conf", "write_nm_conf_finish", "g_string_free_to_file"}

\* some managed-backend write of the run returned true
WroteNetworkd(p) ==
    \E k \in DOMAIN trace[p] : trace[p][k].op \in NetworkdWriters /\ trace[p][k].res

TierRank(path) ==
    CASE path[1] = TierLib -> 1
      [] path[1] = TierEtc -> 2
      [] path[1] = TierRun -> 3
      [] OTHER -> 0

\* the order of two basenames by their bytes, stated without strcmp
BytewiseLess(a, b) ==
    LET x == Bytes(a)
        y == Bytes(b)
    IN  \E i \in 1..Len(y) :
            /\ \A j \in 1..(i - 1) : j <= Len(x) /\ x[j] = y[j]
            /\ (i > Len(x) \/ x[i] < y[i])

\* the run took the discovery branch and gl is in scope: it is in the loop of
\* lines 170-171, or parse_yaml failed in that loop
InDiscoveryLoop(p) ==
    \/ pc[p] = "ingest_configs"
    \/ Exited(p) /\ Has(p, "glob") /\ EndsWith(p, "parse_yaml", FALSE)

GlPaths(p) == {gl_pathv[p][k] : k \in DOMAIN gl_pathv[p]}

\* the path of the highest tier among the matched paths with the basename of x
IsWinner(p, x) ==
    /\ x \in GlPaths(p)
    /\ \A y \in GlPaths(p) :
          g_path_get_basename(y) = g_path_get_basename(x) => TierRank(y) <= TierRank(x)

(* ------------------------------- claims -------------------------------- *)

\* C1: in discovery mode every path passed to ingestion is the match of the
\* highest tier (lib < etc < run) for its basename, no basename is ingested
\* twice, and when the loop over the sorted keys has ended every matched
\* basename has been ingested exactly once.
C1_HighestTierIngested ==
    \A p \in Procs :
        InDiscoveryLoop(p) =>
            LET ing == Ingested(p) IN
            /\ \A k \in DOMAIN ing : IsWinner(p, ing[k])
            /\ \A j, k \in DOMAIN ing :
                  g_path_get_basename(ing[j]) = g_path_get_basename(ing[k]) => j = k
            /\ (pc[p] = "ingest_configs" /\ iter[p] >= Len(config_keys[p])) =>
                  \A x \in GlPaths(p) :
                      Cardinality({k \in DOMAIN ing :
                          g_path_get_basename(ing[k]) = g_path_get_basename(x)}) = 1

\* a basename matched in all three tiers, ingested from run/netplan, the loop ended
C1_Witness ==
    \E p \in Procs :
        /\ pc[p] = "ingest_configs" /\ iter[p] >= Len(config_keys[p])
        /\ \E b \in Basenames :
              /\ {<<TierLib, b>>, <<TierEtc, b>>, <<TierRun, b>>} \subseteq GlPaths(p)
              /\ \E k \in DOMAIN Ingested(p) : Ingested(p)[k] = <<TierRun, b>>
        /\ called_as_generator[p]

\* C2: in discovery mode the sources passed to ingestion are strictly
\* ascending in the byte-wise order of their basenames, whatever their tiers.
C2_IngestionAscending ==
    \A p \in Procs :
        Has(p, "glob") =>
            LET ing == Ingested(p) IN
            \A j, k \in DOMAIN ing :
                j < k => BytewiseLess(g_path_get_basename(ing[j]), g_path_get_basename(ing[k]))

\* a run/netplan file ingested before a lib/netplan file
C2_Witness ==
    \E p \in Procs :
        /\ Has(p, "glob")
        /\ Len(Ingested(p)) = 2
        /\ Ingested(p)[1][1] = TierRun
        /\ Ingested(p)[2][1] = TierLib

\* C3: a generator-mode run with three positional arguments that found
\* <first argument>/netplan.stamp at its start calls no collaborator at all
\* (no glob, parse_yaml, finish_parse, cleanup, writer, policy file, udevadm,
\* enable_networkd, fopen of the stamp), leaves the stamp files as they were,
\* and ends with exit status 0.
C3_StampedRunIsNoOp ==
    \A p \in Procs :
        ( /\ called_as_generator[p]
          /\ Len(files[p]) = 3
          /\ StampPath(files[p]) \in stamps_at_start[p] ) =>
            /\ trace[p] = <<>>
            /\ stamps = stamps_at_start[p]
            /\ pc[p] = "generator_check" \/ (Exited(p) /\ status[p] = "exit0")

\* the second run, as generator, found the stamp and has exited
C3_Witness ==
    \E p \in Procs :
        /\ called_as_generator[p]
        /\ Len(files[p]) = 3
        /\ StampPath(files[p]) \in stamps_at_start[p]
        /\ Exited(p)


\* the run found the stamp of its first argument when it started
StartedStamped(p) ==
    /\ called_as_generator[p]
    /\ Len(files[p]) = 3
    /\ StampPath(files[p]) \in stamps_at_start[p]

\* the run got past finish_parse and is past the dispatch of lines 176-198
PastDispatch(p) ==
    /\ Has(p, "cleanup_nm_conf")
    /\ pc[p] \in {"generator_end", "write_stamp", "exited"}

\* C4 as stated: over sequential generator-mode invocations, ingestion and
\* backend dispatch each execute in at most one invocation.
C4_AtMostOneGeneration ==
    ingestRuns <= 1 /\ dispatchRuns <= 1

\* C4, amended: at most one generator-mode invocation completes generation
\* (creates the stamp), the stamp then exists, and an invocation started
\* with the stamp present ingests nothing, writes nothing and exits 0.  An
\* invocation that ended in a fatal error left no stamp, so generation can
\* execute again.
C4_AtMostOneCompletedGeneration ==
    /\ stampRuns <= 1
    /\ stampRuns = 1 => stamps # {}
    /\ \A p \in Procs :
          StartedStamped(p) =>
              /\ ~Has(p, "parse_yaml")
              /\ \A k \in DOMAIN trace[p] : trace[p][k].op \notin BackendWrites
              /\ Exited(p) => status[p] = "exit0"

\* the first invocation ingested, dispatched and created the stamp; the
\* second one, against the same directories, has exited
C4_Witness ==
    /\ runs = 2
    /\ ingestRuns = 1 /\ dispatchRuns = 1 /\ stampRuns = 1
    /\ \E p \in Procs : StartedStamped(p) /\ Exited(p) /\ status[p] = "exit0"

\* C5 as stated: reload_udevd is invoked only in a run in which a
\* managed-backend write returned true.
C5_ReloadOnlyAfterManagedOutput ==
    \A p \in Procs : Has(p, "reload_udevd") => WroteNetworkd(p)

\* C5, amended: reload_udevd is invoked, once, exactly in the runs that get
\* past finish_parse with a non-NULL netdefs, after the writers and whatever
\* they returned; with netdefs NULL it is never invoked.
C5_ReloadIffNetdefs ==
    \A p \in Procs :
        /\ Count(p, "reload_udevd") <= 1
        /\ Has(p, "reload_udevd") => netdefs[p] # {} /\ Has(p, "cleanup_nm_conf")
        /\ PastDispatch(p) => (Has(p, "reload_udevd") <=> netdefs[p] # {})
        /\ \A j \in DOMAIN trace[p] :
              trace[p][j].op = "reload_udevd" =>
                  \A k \in DOMAIN trace[p] : trace[p][k].op \in NetworkdWriters => k < j

\* udevd was reloaded in a run whose managed writes all returned false
C5_Witness ==
    \E p \in Procs :
        /\ Has(p, "reload_udevd")
        /\ Has(p, "write_networkd_conf")
        /\ ~WroteNetworkd(p)
        /\ ~any_networkd[p]

\* the run is a generator run that reached the end of main(): it is at the
\* stamp, or has tried to create it
AtEndOfGenerator(p) ==
    /\ called_as_generator[p]
    /\ pc[p] = "write_stamp" \/ Has(p, "fopen")

\* C6: enable_networkd is called (once, with the first positional
\* directory) exactly in the generator-mode runs that reach the end of
\* dispatch with a managed-backend write for a definition, route or rule
\* having returned true.
C6_EnableIffManagedOutput ==
    \A p \in Procs :
        /\ Has(p, "enable_networkd") <=> (AtEndOfGenerator(p) /\ WroteNetworkd(p))
        /\ Count(p, "enable_networkd") <= 1
        /\ \A k \in DOMAIN trace[p] :
              trace[p][k].op = "enable_networkd" => trace[p][k].arg = files[p][1]

\* networkd was enabled although only a global route produced output
C6_Witness ==
    \E p \in Procs :
        /\ Has(p, "enable_networkd")
        /\ \A k \in DOMAIN trace[p] :
              trace[p][k].op = "write_networkd_conf" => ~trace[p][k].res
        /\ \E k \in DOMAIN trace[p] :
              trace[p][k].op = "write_networkd_global_ip_route" /\ trace[p][k].res

\* C7: a generator-mode run that gets past dispatch ends by opening the
\* stamp of its first argument, whatever any_networkd is, and that is its
\* last action; when it exits 0 after generation the stamp exists.  No stamp
\* is opened or created outside generator mode or by a run that ends with a
\* fatal error.
C7_StampLastAndUnconditional ==
    \A p \in Procs :
        /\ \A k \in DOMAIN trace[p] :
              trace[p][k].op = "fopen" =>
                  /\ k = Len(trace[p])
                  /\ called_as_generator[p]
                  /\ trace[p][k].arg = StampPath(files[p])
                  /\ Exited(p)
                  /\ trace[p][k].res <=> status[p] = "exit0"
        /\ (called_as_generator[p] /\ Exited(p) /\ Has(p, "cleanup_nm_conf")) =>
              Has(p, "fopen")
        /\ (called_as_generator[p] /\ Exited(p) /\ status[p] = "exit0" /\ trace[p] # <<>>) =>
              /\ EndsWith(p, "fopen", TRUE)
              /\ StampPath(files[p]) \in stamps
        /\ (Running(p) \/ Exited(p)) /\ ~EndsWith(p, "fopen", TRUE) =>
              stamps = stamps_at_start[p]

\* the stamp was created by a run in which no managed write returned true
C7_Witness ==
    \E p \in Procs :
        /\ EndsWith(p, "fopen", TRUE)
        /\ Has(p, "write_networkd_conf")
        /\ ~any_networkd[p]
        /\ ~Has(p, "enable_networkd")
        /\ generator_run_stamp[p] \in stamps

\* C8: a generator-mode invocation whose positional arguments are not
\* exactly three calls no collaborator, leaves the stamp files as they were
\* and ends with exit status 1.
C8_BadArityIsUsageError ==
    \A p \in Procs :
        ( /\ called_as_generator[p]
          /\ pc[p] \notin {"idle", "parse_options"}
          /\ Len(files[p]) # 3 ) =>
            /\ trace[p] = <<>>
            /\ stamps = stamps_at_start[p]
            /\ pc[p] = "generator_check" \/ (Exited(p) /\ status[p] = "exit1")

\* generator runs with two and with four arguments have ended
C8_Witness ==
    \E p \in Procs :
        /\ called_as_generator[p]
        /\ Len(files[p]) \in {2, 4}
        /\ Exited(p) /\ status[p] = "exit1"
        /\ trace[p] = <<>>

\* C9: a failing parse_yaml is the last thing the run does: the run has
\* exited with status 1, nothing was ingested, finalized, cleaned or
\* written after it, and no stamp was created.
C9_ParseFailureStopsRun ==
    \A p \in Procs :
        \A k \in DOMAIN trace[p] :
            (trace[p][k].op = "parse_yaml" /\ ~trace[p][k].res) =>
                /\ k = Len(trace[p])
                /\ Exited(p) /\ status[p] = "exit1"
                /\ stamps = stamps_at_start[p]
                /\ ~Has(p, "finish_parse")
                /\ \A j \in DOMAIN trace[p] : trace[p][j].op \notin BackendWrites

\* a generator run whose first source parsed and whose second one failed,
\* after an earlier generator run that failed the same way
C9_Witness ==
    \E p \in Procs :
        /\ called_as_generator[p]
        /\ Len(Ingested(p)) = 2
        /\ EndsWith(p, "parse_yaml", FALSE)
        /\ ingestRuns = 2
        /\ stamps = {}

\* C10 as stated: every run that has ended ended with exit status 0 or 1.
C10_ExitZeroOrOne ==
    \A p \in Procs : Exited(p) => status[p] \in {"exit0", "exit1"}

\* C10, amended: a run ends with exit status 0, with exit status 1, or by
\* abort() (SIGABRT) from a failed g_assert.  It is 1 exactly for bad usage
\* (option parsing, generator arity), a failed glob and a failed parse_yaml;
\* it is the abort exactly for a failed finish_parse and a failed fopen of
\* the stamp; it is 0 otherwise (the stamp found, or the end of main()).
C10_ExitStatusByCause ==
    \A p \in Procs :
        Exited(p) =>
            /\ status[p] \in {"exit0", "exit1", "SIGABRT"}
            /\ status[p] = "SIGABRT" <=>
                  (EndsWith(p, "finish_parse", FALSE) \/ EndsWith(p, "fopen", FALSE))
            /\ status[p] = "exit1" <=>
                  \/ trace[p] = <<>> /\ ~StartedStamped(p)
                  \/ EndsWith(p, "glob", FALSE)
                  \/ EndsWith(p, "parse_yaml", FALSE)

\* finish_parse failed and the run was aborted
C10_Witness ==
    \E p \in Procs :
        /\ Exited(p)
        /\ EndsWith(p, "finish_parse", FALSE)
        /\ status[p] = "SIGABRT"

\* C11: in a generator-mode run that executes generation (the stamp was not
\* found at the start), a failed creation of the stamp is fatal: the run is
\* aborted, and such a run never ends with exit status 0 unless the stamp
\* has been created.
C11_StampFailureIsFatal ==
    \A p \in Procs :
        /\ EndsWith(p, "fopen", FALSE) =>
              /\ Exited(p) /\ status[p] = "SIGABRT"
              /\ generator_run_stamp[p] \notin stamps
        /\ ( /\ called_as_generator[p]
             /\ ~StartedStamped(p)
             /\ Exited(p) /\ status[p] = "exit0" ) =>
                /\ generator_run_stamp[p] \in stamps
                /\ \E k \in DOMAIN trace[p] : trace[p][k].op = "fopen" /\ trace[p][k].res

\* generation was executed, definitions were written, the stamp could not be
\* created and the run was aborted
C11_Witness ==
    \E p \in Procs :
        /\ called_as_generator[p]
        /\ Has(p, "write_nm_conf")
        /\ EndsWith(p, "fopen", FALSE)
        /\ status[p] = "SIGABRT"
        /\ stamps = {}

\* the run got past finish_parse: finish_parse returned true and main() is
\* beyond line 178
PastFinalize(p) ==
    /\ \E k \in DOMAIN trace[p] : trace[p][k].op = "finish_parse" /\ trace[p][k].res
    /\ pc[p] # "cleanup"

\* C12: a run that got past finish_parse has invoked cleanup_networkd_conf
\* and cleanup_nm_conf, once each, and both before its first backend write;
\* from then on every backend file of a definition under rootdir was written
\* by this run, so when the run is past dispatch no file is left for a
\* definition that is not in its netdefs.
C12_CleanupBeforeWrites ==
    \A p \in Procs :
        /\ PastFinalize(p) =>
              Count(p, "cleanup_networkd_conf") = 1 /\ Count(p, "cleanup_nm_conf") = 1
        /\ \A k \in DOMAIN trace[p] :
              trace[p][k].op \in BackendWrites =>
                  /\ \E i \in 1..(k - 1) : trace[p][i].op = "cleanup_networkd_conf"
                  /\ \E j \in 1..(k - 1) : trace[p][j].op = "cleanup_nm_conf"
        /\ (Running(p) \/ Exited(p)) /\ PastFinalize(p) =>
              \A f \in output :
                  /\ f[2] \in netdefs[p] \ pending[p] \/ (f[2] \in netdefs[p] /\ pc[p] # "nd_iterator")
                  /\ \E k \in DOMAIN trace[p] :
                        /\ trace[p][k].arg = <<f[2]>>
                        /\ trace[p][k].op =
                              IF f[1] = NetworkdDir THEN "write_networkd_conf" ELSE "write_nm_conf"

\* the second run found files of both backends from the first one, its own
\* sources define eth0 only, and it has ended with the files of eth0 alone
C12_Witness ==
    \E p \in Procs :
        /\ Exited(p) /\ status[p] = "exit0"
        /\ \E k \in DOMAIN trace[p] : trace[p][k].op = "cleanup_networkd_conf" /\ trace[p][k].res
        /\ \E k \in DOMAIN trace[p] : trace[p][k].op = "cleanup_nm_conf" /\ trace[p][k].res
        /\ netdefs[p] = {"eth0"}
        /\ output = {<<NmDir, "eth0">>}

\* the run took the discovery branch and each of the three globs returned
\* without a match
EmptyDiscovery(p) ==
    /\ Cardinality({k \in DOMAIN trace[p] : trace[p][k].op = "glob" /\ trace[p][k].res}) = 3
    /\ gl_pathv[p] = <<>>
    /\ ~Has(p, "parse_yaml")

\* C13 as stated: a discovery run whose three globs matched nothing ingests
\* nothing, performs no backend write, and ends with exit status 0.
C13_EmptyDiscoveryExitsZero ==
    \A p \in Procs :
        EmptyDiscovery(p) =>
            /\ \A k \in DOMAIN trace[p] : trace[p][k].op \notin BackendWrites
            /\ Exited(p) => status[p] = "exit0"

\* C13, amended: a glob without a match is not an error; a discovery run
\* whose three globs matched nothing ingests nothing, passes finish_parse,
\* invokes the two cleanups and no writer (no write for a definition, route
\* or rule, no finish step, no policy file, no reload of udevd), and ends
\* with exit status 0, except that in generator mode it is aborted when the
\* stamp cannot be created.
C13_EmptyDiscoveryWritesNothing ==
    \A p \in Procs :
        /\ EndsWith(p, "glob", TRUE) => Running(p)
        /\ EmptyDiscovery(p) =>
              /\ netdefs[p] = {} /\ ip_routing[p] = {} /\ ip_rules[p] = {}
              /\ \A k \in DOMAIN trace[p] :
                    /\ trace[p][k].op \notin BackendWrites \cup {"reload_udevd", "enable_networkd"}
                    /\ trace[p][k].op = "finish_parse" => trace[p][k].res
              /\ Exited(p) =>
                    \/ status[p] = "exit0"
                    \/ /\ called_as_generator[p]
                       /\ EndsWith(p, "fopen", FALSE)
                       /\ status[p] = "SIGABRT"

\* after a generator run that created its stamp, a run outside generator
\* mode found nothing to discover and ended with exit status 0
C13_Witness ==
    \E p \in Procs :
        /\ EmptyDiscovery(p)
        /\ Exited(p) /\ status[p] = "exit0"
        /\ Has(p, "cleanup_nm_conf")
        /\ ~called_as_generator[p]
        /\ stampRuns = 1

\* the run is outside generator mode, has parsed its options and was given
\* files on the command line
DirectMode(p) ==
    /\ ~called_as_generator[p]
    /\ pc[p] \notin {"idle", "parse_options"}
    /\ files[p] # <<>>

\* C14: outside generator mode with files on the command line, the sources
\* passed to parse_yaml are those files, one call per argument in the order
\* of the command line (a repeated argument is ingested again, nothing is
\* sorted), up to a failing parse_yaml; when the run goes on to finish_parse
\* every argument has been ingested; glob is never called and the table of
\* basenames is never built.
C14_ExplicitFilesInOrder ==
    \A p \in Procs :
        DirectMode(p) =>
            LET ing == Ingested(p) IN
            /\ ~Has(p, "glob")
            /\ gl_pathv[p] = <<>> /\ configs[p] = <<>> /\ config_keys[p] = <<>>
            /\ Len(ing) <= Len(files[p])
            /\ \A k \in DOMAIN ing : ing[k] = files[p][k]
            /\ Has(p, "finish_parse") => ing = files[p]
            /\ Len(ing) < Len(files[p]) =>
                  pc[p] \in {"generator_check", "read_input"} \/ EndsWith(p, "parse_yaml", FALSE)

\* four files were ingested: the second sorts before the first and the
\* fourth is the first again
C14_Witness ==
    \E p \in Procs :
        /\ DirectMode(p)
        /\ Has(p, "finish_parse")
        /\ Ingested(p) = << <<"arg2">>, <<"arg1">>, <<"arg3">>, <<"arg2">> >>

\* C15: with overlapping generator invocations the stamp guards only an
\* invocation started after another one has completed: an invocation started
\* with the stamp present calls no collaborator, and one that ended without
\* calling any found the stamp; but the stamp comes to exist only by the
\* fopen at the end of an invocation that executed generation, the stamp check
\* itself creates nothing, so nothing holds back invocations that pass the
\* check before that fopen.
C15_StampGuardsSequentialOnly ==
    /\ stamps # {} => stampRuns >= 1
    /\ \A p \in Procs :
          (called_as_generator[p] /\ Len(files[p]) = 3) =>
              /\ StampPath(files[p]) \in stamps_at_start[p] => trace[p] = <<>>
              /\ (Exited(p) /\ status[p] = "exit0" /\ trace[p] = <<>>) =>
                    StampPath(files[p]) \in stamps
              /\ (Exited(p) /\ status[p] = "exit0" /\ trace[p] # <<>>) =>
                    EndsWith(p, "fopen", TRUE)

\* two invocations with the same directories both passed the stamp check, both
\* ingested a source, cleaned up, wrote eth0 and created the stamp
C15_Witness ==
    \E p, q \in Procs :
        /\ p # q
        /\ called_as_generator[p] /\ called_as_generator[q]
        /\ files[p] = files[q] /\ Len(files[p]) = 3
        /\ \A r \in {p, q} :
              /\ Has(r, "parse_yaml")
              /\ Has(r, "cleanup_networkd_conf") /\ Has(r, "cleanup_nm_conf")
              /\ Has(r, "write_networkd_conf") /\ Has(r, "write_nm_conf")
              /\ EndsWith(r, "fopen", TRUE)
        /\ ingestRuns = 2 /\ dispatchRuns = 2 /\ stampRuns = 2

\* the number of calls of the writer op for the definition d in the run
Writes(p, op, d) ==
    Cardinality({k \in DOMAIN trace[p] : trace[p][k].op = op /\ trace[p][k].arg = <<d>>})

\* C16: in a run that dispatches, each call of write_networkd_conf for a
\* definition is followed at once by the call of write_nm_conf for the same
\* definition, whatever the first returned; no definition is written twice;
\* the definitions written so far are those the iteration has visited, and
\* when the iteration is over every definition of netdefs has had exactly
\* one call of each writer, whatever the calls returned.
C16_OneWritePerBackendPerDefinition ==
    \A p \in Procs :
        /\ \A k \in DOMAIN trace[p] :
              /\ trace[p][k].op = "write_networkd_conf" =>
                    /\ k < Len(trace[p])
                    /\ trace[p][k + 1].op = "write_nm_conf"
                    /\ trace[p][k + 1].arg = trace[p][k].arg
              /\ trace[p][k].op = "write_nm_conf" =>
                    /\ k > 1
                    /\ trace[p][k - 1].op = "write_networkd_conf"
                    /\ trace[p][k - 1].arg = trace[p][k].arg
        /\ trace[p] # <<>> =>
              \A d \in Defs :
                  LET managed == Writes(p, "write_networkd_conf", d)
                      integration == Writes(p, "write_nm_conf", d)
                  IN  /\ managed <= 1 /\ integration <= 1
                      /\ managed = 1 => d \in netdefs[p]
                      /\ pc[p] = "nd_iterator" => (managed = 1 <=> d \in netdefs[p] \ pending[p])
                      /\ (PastFinalize(p) /\ pc[p] # "nd_iterator" /\ d \in netdefs[p]) =>
                            managed = 1 /\ integration = 1

\* two definitions: the managed write of the first returned true, that of
\* the second returned false, and both had their integration write
C16_Witness ==
    \E p \in Procs :
        /\ Has(p, "write_nm_conf_finish")
        /\ netdefs[p] = Defs
        /\ \E j, k \in DOMAIN trace[p] :
              /\ j < k
              /\ trace[p][j].op = "write_networkd_conf" /\ trace[p][j].res
              /\ trace[p][k].op = "write_networkd_conf" /\ ~trace[p][k].res
        /\ \A d \in Defs : Writes(p, "write_nm_conf", d) = 1

\* C17 as stated: in a run that is past dispatch, the global writer of the
\* managed backend has been called once for every entry of ip_routing and
\* once for every entry of ip_rules, with netdefs NULL as well, and
\* any_networkd is set when one of the calls returned true.
C17_GlobalWriterForEveryEntry ==
    \A p \in Procs :
        PastDispatch(p) =>
            /\ \A r \in ip_routing[p] : Writes(p, "write_networkd_global_ip_route", r) = 1
            /\ \A u \in ip_rules[p] : Writes(p, "write_networkd_global_ip_rule", u) = 1
            /\ WroteNetworkd(p) => any_networkd[p]

\* the global renderer the run got from get_global_backend is the
\* integration backend
RendererIsNm(p) ==
    \E k \in DOMAIN trace[p] :
        trace[p][k].op = "get_global_backend" /\ trace[p][k].arg = <<"BACKEND_NM">>

\* C18: a run that got past finish_parse asks for the global renderer once,
\* after dispatch, and writes 10-globally-managed-devices.conf under
\* run/NetworkManager/conf.d, once and right after that, exactly when the
\* renderer is the integration backend: with netdefs NULL or not, whatever
\* the writers returned, and without looking for the file first.
C18_PolicyFileIffRendererNm ==
    \A p \in Procs :
        /\ Count(p, "get_global_backend") <= 1
        /\ (PastFinalize(p) /\ pc[p] \in {"generator_end", "write_stamp", "exited"}) =>
              Count(p, "get_global_backend") = 1
        /\ Has(p, "get_global_backend") =>
              (Has(p, "g_string_free_to_file") <=> RendererIsNm(p))
        /\ \A k \in DOMAIN trace[p] :
              trace[p][k].op = "g_string_free_to_file" =>
                  /\ k > 1 /\ trace[p][k - 1].op = "get_global_backend"
                  /\ trace[p][k].arg =
                        <<"run/NetworkManager/conf.d", "10-globally-managed-devices.conf">>
                  /\ Count(p, "g_string_free_to_file") = 1

\* the policy file was written in a second run that has no definition at
\* all, after a first run that got to its end too
C18_Witness ==
    \E p \in Procs :
        /\ Has(p, "g_string_free_to_file")
        /\ netdefs[p] = {}
        /\ ~Has(p, "write_nm_conf")
        /\ runs = 2 /\ stampRuns = 1

DefinitionWriters == {"write_networkd_conf", "write_nm_conf"}

GlobalWriters == {"write_networkd_global_ip_route", "write_networkd_global_ip_rule"}

\* C19 as stated: no write for a definition and no global route or rule
\* write comes after write_nm_conf_finish.
C19_NoWriteAfterFinish ==
    \A p \in Procs :
        \A j \in DOMAIN trace[p] :
            trace[p][j].op = "write_nm_conf_finish" =>
                \A k \in DOMAIN trace[p] :
                    trace[p][k].op \in DefinitionWriters \cup GlobalWriters => k < j

\* C19, amended: write_nm_conf_finish is called once, in the runs whose
\* netdefs is not NULL, after every write_networkd_conf and write_nm_conf of
\* the run; the global route and rule writes of the managed backend all come
\* after it.
C19_FinishAfterDefinitionWrites ==
    \A p \in Procs :
        /\ Count(p, "write_nm_conf_finish") <= 1
        /\ Has(p, "write_nm_conf_finish") => netdefs[p] # {}
        /\ (PastFinalize(p) /\ pc[p] \notin {"nd_iterator", "write_nm_conf_finish"}) =>
              (Has(p, "write_nm_conf_finish") <=> netdefs[p] # {})
        /\ \A j \in DOMAIN trace[p] :
              trace[p][j].op = "write_nm_conf_finish" =>
                  \A k \in DOMAIN trace[p] :
                      /\ trace[p][k].op \in DefinitionWriters => k < j
                      /\ trace[p][k].op \in GlobalWriters => k > j

\* after the finish step a global route and a global rule were written
C19_Witness ==
    \E p \in Procs :
        \E i, j, k \in DOMAIN trace[p] :
            /\ i < j /\ j < k
            /\ trace[p][i].op = "write_nm_conf_finish"
            /\ trace[p][j].op = "write_networkd_global_ip_route"
            /\ trace[p][k].op = "write_networkd_global_ip_rule"

\* the positional arguments of the run
Args(p) == {files[p][i] : i \in DOMAIN files[p]}

\* C20: in a generator run no positional argument is passed to parse_yaml:
\* every ingested source is a path of one of the three tiers, found by the
\* three globs that precede the first parse_yaml; the first argument occurs
\* only as the directory of the stamp that is opened and as the argument of
\* enable_networkd, and no collaborator is called with the second or third.
C20_GeneratorArgsNotIngested ==
    \A p \in Procs :
        (called_as_generator[p] /\ pc[p] \notin {"idle", "parse_options"}) =>
            \A k \in DOMAIN trace[p] :
                LET e == trace[p][k] IN
                /\ e.op = "parse_yaml" =>
                      /\ e.arg \notin Args(p)
                      /\ e.arg[1] \in {TierLib, TierEtc, TierRun}
                      /\ Cardinality({j \in 1..(k - 1) : trace[p][j].op = "glob"}) = 3
                /\ e.op = "enable_networkd" => e.arg = files[p][1]
                /\ e.op = "fopen" => e.arg = files[p][1] \o <<"netplan.stamp">>
                /\ e.op \notin {"enable_networkd", "fopen"} =>
                      /\ e.arg \notin Args(p)
                      /\ e.arg # StampPath(files[p])
                /\ k = 1 => e.op = "glob" /\ e.arg = <<TierLib>>

\* a generator run ingested two discovered sources, enabled networkd for
\* its first argument and created the stamp there
C20_Witness ==
    \E p \in Procs :
        /\ called_as_generator[p]
        /\ Len(Ingested(p)) = 2
        /\ Has(p, "enable_networkd")
        /\ EndsWith(p, "fopen", TRUE)
        /\ StampPath(files[p]) \in stamps

=============================================================================
